---- MODULE Spec2Model ----
(***************************************************************************)
(* TrustEscrow: one escrow agreement (contracts/TrustEscrow.sol) together  *)
(* with the pause switch of its factory (TrustEscrowFactory).              *)
(*                                                                         *)
(* A call that moves value (release, refund, emergencyWithdraw) hands      *)
(* control to the recipient while it is in flight.  Such a call is split   *)
(* in two steps: the step that runs the modifiers and the body up to the   *)
(* low-level call, and the step in which the recipient returns (success)   *)
(* or reverts (the require after the call reverts the whole call).  In     *)
(* between, the recipient may make nested calls into the agreement.  stack *)
(* holds the calls in flight, each with the state at its entry, which a    *)
(* revert restores.                                                        *)
(*                                                                         *)
(* Spec follows one agreement through its calls.  SpecFactory follows the  *)
(* factory's registry and the agreements that exist, created through the   *)
(* factory or constructed directly.                                        *)
(* SpecAgreements follows the factory together with the agreements it     *)
(* created, each called on its own state.                                  *)
(***************************************************************************)
EXTENDS Integers, Sequences, FiniteSets, TLC

\* ---- bounds ----
NumAddr == 4        \* identities 1..NumAddr; 0 is address(0)
MaxValue == 1       \* largest msg.value of one call
InitWallet == 1     \* funds every identity starts with
MaxDepth == 1       \* calls in flight at once
MaxInitValue == 0   \* largest value sent with the constructor
MaxEscrows == 2     \* agreements that exist at once, a batch of full length aside
MaxTime == 1        \* block.timestamp ranges over 1..MaxTime

\* ---- program constants ----
MaxBatch == 10      \* createMultipleEscrows: if (_beneficiaries.length > 10) revert

NullAddr == 0
Addr == 1..NumAddr
\* Constructor arguments: every check of the constructor can fail, and the
\* valid triple is (1, 2, 3); the identities from 4 on hold no role.
DepositorArgs == 0..1
BeneficiaryArgs == 0..2
ArbiterArgs == 0..3
Values == 0..MaxValue
FactoryDeployers == {NumAddr}      \* the factory's deployer holds no role in the agreement
EscrowIds == 1..(MaxEscrows + MaxBatch)   \* addresses of the agreements, in order of creation
Creators == 1..2                   \* callers of the factory; valid triples (1, 2, 3) and (2, 1, 3)
Times == 1..MaxTime

VARIABLES
    created,        \* the agreement has been constructed
    depositor, beneficiary, arbiter,
    owner,          \* Ownable._owner of the agreement
    amount, isFunded, isReleased, isRefunded,
    paused,         \* Pausable._paused of the agreement
    entered,        \* ReentrancyGuard._status = ENTERED
    balance,        \* address(this).balance
    wallet,         \* funds of every identity
    events,         \* the agreement's event log
    payouts,        \* value transfers made by release and refund
    stack,          \* calls in flight, outermost first
    last,           \* the call of the latest step and its outcome
    factoryOwner, factoryPaused,
    agreements,     \* SpecFactory: the state of the agreement at every address
    escrows,        \* factory: address[] escrows
    userEscrows,    \* factory: mapping(address => address[]) userEscrows
    escrowInfo      \* factory: mapping(address => EscrowInfo) escrowInfo

roles == <<created, depositor, beneficiary, arbiter, owner>>
fields == <<amount, isFunded, isReleased, isRefunded, paused, entered,
            balance, wallet, events, payouts>>
factory == <<factoryOwner, factoryPaused>>
registry == <<agreements, escrows, userEscrows, escrowInfo>>
vars == <<roles, fields, stack, last, factory, registry>>

\* The state a revert restores.
Snapshot ==
    [amount |-> amount, isFunded |-> isFunded, isReleased |-> isReleased,
     isRefunded |-> isRefunded, paused |-> paused, entered |-> entered,
     balance |-> balance, wallet |-> wallet, events |-> events,
     payouts |-> payouts]

\* The state as the last completed top-level call left it.
Committed == IF stack = <<>> THEN Snapshot ELSE stack[1].snap

Restore(s) ==
    /\ amount' = s.amount
    /\ isFunded' = s.isFunded
    /\ isReleased' = s.isReleased
    /\ isRefunded' = s.isRefunded
    /\ paused' = s.paused
    /\ entered' = s.entered
    /\ balance' = s.balance
    /\ wallet' = s.wallet
    /\ events' = s.events
    /\ payouts' = s.payouts

Call(op, c, v, res) == [op |-> op, caller |-> c, value |-> v, result |-> res]

\* Every step records its call.
Note(op, c, v, res) == last' = Call(op, c, v, res)

\* A call that reverts changes nothing.  It leaves no trace, so a reverted call
\* made right after another one is the same step from the same state, and is
\* left out.
Fails(op, c, v, res) ==
    /\ last.result \in {"ok", "pending", "TransferFailed"}
    /\ Note(op, c, v, res)
    /\ UNCHANGED <<roles, fields, stack, factory, registry>>

\* No agreement at an address, and its empty registry entry.
NoAgreement ==
    [exists |-> FALSE, depositor |-> NullAddr, beneficiary |-> NullAddr,
     arbiter |-> NullAddr, owner |-> NullAddr, amount |-> 0, isFunded |-> FALSE,
     isReleased |-> FALSE, isRefunded |-> FALSE, paused |-> FALSE, balance |-> 0]

NoInfo ==
    [depositor |-> NullAddr, beneficiary |-> NullAddr, arbiter |-> NullAddr,
     createdAt |-> 0, exists |-> FALSE]

Init ==
    /\ created = FALSE
    /\ depositor = NullAddr /\ beneficiary = NullAddr /\ arbiter = NullAddr
    /\ owner = NullAddr
    /\ amount = 0
    /\ isFunded = FALSE /\ isReleased = FALSE /\ isRefunded = FALSE
    /\ paused = FALSE
    /\ entered = FALSE
    /\ balance = 0
    /\ wallet = [a \in Addr |-> InitWallet]
    /\ events = <<>>
    /\ payouts = <<>>
    /\ stack = <<>>
    /\ last = Call("none", NullAddr, 0, "ok")
    /\ factoryOwner \in FactoryDeployers
    /\ factoryPaused = FALSE
    /\ agreements = [e \in EscrowIds |-> NoAgreement]
    /\ escrows = <<>>
    /\ userEscrows = [c \in Addr |-> <<>>]
    /\ escrowInfo = [e \in EscrowIds |-> NoInfo]

constructorErr_noDepositorArbiter(d, b, a) ==
    IF d = NullAddr THEN "OwnableInvalidOwner"
    ELSE IF b = NullAddr THEN "InvalidAddress"
    ELSE IF a = NullAddr THEN "InvalidAddress"
    ELSE IF b = a THEN "InvalidAddress"
    ELSE IF d = b THEN "InvalidAddress"
    ELSE "ok"

\* ---- constructor ----
constructorErr(d, b, a) ==
    IF d = NullAddr THEN "OwnableInvalidOwner"
    ELSE IF b = NullAddr THEN "InvalidAddress"
    ELSE IF a = NullAddr THEN "InvalidAddress"
    ELSE IF b = a THEN "InvalidAddress"
    ELSE IF d = b THEN "InvalidAddress"
    ELSE IF d = a THEN "InvalidAddress"
    ELSE "ok"

\* The deployer (the factory, or an account outside Addr) pays v.
constructor(d, b, a, v) ==
    /\ ~created
    /\ LET err == constructorErr(d, b, a) IN
       IF err # "ok" THEN Fails("constructor", NullAddr, v, err)
       ELSE /\ created' = TRUE
            /\ owner' = d
            /\ depositor' = d
            /\ beneficiary' = b
            /\ arbiter' = a
            /\ balance' = balance + v
            /\ events' = Append(events, [name |-> "EscrowCreated", who |-> d, amount |-> 0])
            /\ Note("constructor", NullAddr, v, "ok")
            /\ UNCHANGED <<amount, isFunded, isReleased, isRefunded, paused,
                           entered, wallet, payouts, stack, factory, registry>>

\* ---- deposit ----
depositErr_noNotFunded(c, v) ==
    IF c # depositor THEN "OnlyDepositor"
    ELSE IF paused THEN "EnforcedPause"
    ELSE IF entered THEN "ReentrancyGuardReentrantCall"
    ELSE IF v = 0 THEN "InvalidAmount"
    ELSE "ok"

depositErr_pauseFirst(c, v) ==
    IF c # depositor THEN "OnlyDepositor"
    ELSE IF paused THEN "EnforcedPause"
    ELSE IF isFunded THEN "AlreadyFunded"
    ELSE IF entered THEN "ReentrancyGuardReentrantCall"
    ELSE IF v = 0 THEN "InvalidAmount"
    ELSE "ok"

depositErr_noPause(c, v) ==
    IF c # depositor THEN "OnlyDepositor"
    ELSE IF isFunded THEN "AlreadyFunded"
    ELSE IF entered THEN "ReentrancyGuardReentrantCall"
    ELSE IF v = 0 THEN "InvalidAmount"
    ELSE "ok"

\* The modifiers of deposit in their order, then the check of msg.value.
depositErr(c, v) ==
    IF c # depositor THEN "OnlyDepositor"
    ELSE IF isFunded THEN "AlreadyFunded"
    ELSE IF paused THEN "EnforcedPause"
    ELSE IF entered THEN "ReentrancyGuardReentrantCall"
    ELSE IF v = 0 THEN "InvalidAmount"
    ELSE "ok"

deposit_amountOnly(c, v) ==
    /\ created
    /\ wallet[c] >= v
    /\ LET err == depositErr(c, v) IN
       IF err # "ok" THEN Fails("deposit", c, v, err)
       ELSE /\ amount' = v
            /\ balance' = balance + v
            /\ wallet' = [wallet EXCEPT ![c] = @ - v]
            /\ events' = Append(events, [name |-> "Deposited", who |-> depositor, amount |-> v])
            /\ Note("deposit", c, v, "ok")
            /\ UNCHANGED <<roles, isFunded, isReleased, isRefunded, paused, entered,
                           payouts, stack, factory, registry>>

deposit(c, v) ==
    /\ created
    /\ wallet[c] >= v
    /\ LET err == depositErr(c, v) IN
       IF err # "ok" THEN Fails("deposit", c, v, err)
       ELSE /\ amount' = v
            /\ isFunded' = TRUE
            /\ balance' = balance + v
            /\ wallet' = [wallet EXCEPT ![c] = @ - v]
            /\ events' = Append(events, [name |-> "Deposited", who |-> depositor, amount |-> v])
            /\ Note("deposit", c, v, "ok")
            /\ UNCHANGED <<roles, isReleased, isRefunded, paused, entered,
                           payouts, stack, factory, registry>>

\* ---- receive: a value transfer with empty calldata ----
receiveErr_anySender(c) == "ok"

receiveErr(c) ==
    IF c # depositor THEN "OnlyDepositorCanSendETH" ELSE "ok"

receiveOverwrites(c, v) ==
    /\ created
    /\ wallet[c] >= v
    /\ LET err == receiveErr(c) IN
       IF err # "ok" THEN Fails("receive", c, v, err)
       ELSE /\ balance' = balance + v
            /\ wallet' = [wallet EXCEPT ![c] = @ - v]
            /\ amount' = v
            /\ isFunded' = TRUE
            /\ events' = Append(events, [name |-> "Deposited", who |-> depositor, amount |-> v])
            /\ Note("receive", c, v, "ok")
            /\ UNCHANGED <<roles, isReleased, isRefunded, paused, entered,
                           payouts, stack, factory, registry>>

receive_alwaysEmits(c, v) ==
    /\ created
    /\ wallet[c] >= v
    /\ LET err == receiveErr(c) IN
       IF err # "ok" THEN Fails("receive", c, v, err)
       ELSE /\ balance' = balance + v
            /\ wallet' = [wallet EXCEPT ![c] = @ - v]
            /\ IF ~isFunded
               THEN /\ amount' = v
                    /\ isFunded' = TRUE
               ELSE UNCHANGED <<amount, isFunded>>
            /\ events' = Append(events, [name |-> "Deposited", who |-> depositor, amount |-> v])
            /\ Note("receive", c, v, "ok")
            /\ UNCHANGED <<roles, isReleased, isRefunded, paused, entered,
                           payouts, stack, factory, registry>>

receive(c, v) ==
    /\ created
    /\ wallet[c] >= v
    /\ LET err == receiveErr(c) IN
       IF err # "ok" THEN Fails("receive", c, v, err)
       ELSE /\ balance' = balance + v
            /\ wallet' = [wallet EXCEPT ![c] = @ - v]
            /\ IF ~isFunded
               THEN /\ amount' = v
                    /\ isFunded' = TRUE
                    /\ events' = Append(events, [name |-> "Deposited", who |-> depositor, amount |-> v])
               ELSE UNCHANGED <<amount, isFunded, events>>
            /\ Note("receive", c, v, "ok")
            /\ UNCHANGED <<roles, isReleased, isRefunded, paused, entered,
                           payouts, stack, factory, registry>>

\* ---- fallback: a value transfer whose calldata matches no function ----
fallback(c, v) ==
    /\ created
    /\ wallet[c] >= v
    /\ Fails("fallback", c, v, "Function not found")

\* ---- calls in flight ----
Frame(op, c, to, v) == [op |-> op, caller |-> c, to |-> to, value |-> v, snap |-> Snapshot]

\* The low-level call hands v to the recipient, who now runs.
Transfer(op, c, to, v) ==
    /\ balance' = balance - v
    /\ wallet' = [wallet EXCEPT ![to] = @ + v]
    /\ stack' = Append(stack, Frame(op, c, to, v))

\* ---- release / refund ----
payoutValue_balance == balance

\* The value of the low-level call of release and refund.
payoutValue == amount

resolveErr_noNotReleased(c) ==
    IF c # arbiter THEN "OnlyArbiter"
    ELSE IF ~isFunded THEN "NotFunded"
    ELSE IF paused THEN "EnforcedPause"
    ELSE IF entered THEN "ReentrancyGuardReentrantCall"
    ELSE IF balance < payoutValue THEN "TransferFailed"
    ELSE "ok"

resolveErr_anyCaller(c) ==
    IF ~isFunded THEN "NotFunded"
    ELSE IF isReleased \/ isRefunded THEN "AlreadyReleased"
    ELSE IF paused THEN "EnforcedPause"
    ELSE IF entered THEN "ReentrancyGuardReentrantCall"
    ELSE IF balance < payoutValue THEN "TransferFailed"
    ELSE "ok"

resolveErr_pauseFirst(c) ==
    IF c # arbiter THEN "OnlyArbiter"
    ELSE IF ~isFunded THEN "NotFunded"
    ELSE IF paused THEN "EnforcedPause"
    ELSE IF isReleased \/ isRefunded THEN "AlreadyReleased"
    ELSE IF entered THEN "ReentrancyGuardReentrantCall"
    ELSE IF balance < payoutValue THEN "TransferFailed"
    ELSE "ok"

\* The modifiers of release and refund in their order, then the low-level
\* call, which fails at once when the balance does not cover its value.
resolveErr(c) ==
    IF c # arbiter THEN "OnlyArbiter"
    ELSE IF ~isFunded THEN "NotFunded"
    ELSE IF isReleased \/ isRefunded THEN "AlreadyReleased"
    ELSE IF paused THEN "EnforcedPause"
    ELSE IF entered THEN "ReentrancyGuardReentrantCall"
    ELSE IF balance < payoutValue THEN "TransferFailed"
    ELSE "ok"

release_transferFirst(c) ==
    /\ created
    /\ LET err == resolveErr(c) IN
       IF err # "ok" THEN Fails("release", c, 0, err)
       ELSE /\ Len(stack) < MaxDepth
            /\ entered' = TRUE
            /\ Transfer("release", c, beneficiary, payoutValue)
            /\ payouts' = Append(payouts, [op |-> "release", to |-> beneficiary, value |-> payoutValue])
            /\ Note("release", c, 0, "pending")
            /\ UNCHANGED <<roles, amount, isFunded, isReleased, isRefunded, paused,
                           events, factory, registry>>

release(c) ==
    /\ created
    /\ LET err == resolveErr(c) IN
       IF err # "ok" THEN Fails("release", c, 0, err)
       ELSE /\ Len(stack) < MaxDepth
            /\ entered' = TRUE
            /\ isReleased' = TRUE
            /\ Transfer("release", c, beneficiary, payoutValue)
            /\ payouts' = Append(payouts, [op |-> "release", to |-> beneficiary, value |-> payoutValue])
            /\ Note("release", c, 0, "pending")
            /\ UNCHANGED <<roles, amount, isFunded, isRefunded, paused, events, factory, registry>>

refund(c) ==
    /\ created
    /\ LET err == resolveErr(c) IN
       IF err # "ok" THEN Fails("refund", c, 0, err)
       ELSE /\ Len(stack) < MaxDepth
            /\ entered' = TRUE
            /\ isRefunded' = TRUE
            /\ Transfer("refund", c, depositor, payoutValue)
            /\ payouts' = Append(payouts, [op |-> "refund", to |-> depositor, value |-> payoutValue])
            /\ Note("refund", c, 0, "pending")
            /\ UNCHANGED <<roles, amount, isFunded, isReleased, paused, events, factory, registry>>

\* ---- pause / unpause / emergencyWithdraw ----
pauseErr(c) ==
    IF c # owner THEN "OwnableUnauthorizedAccount"
    ELSE IF paused THEN "EnforcedPause"
    ELSE "ok"

pause(c) ==
    /\ created
    /\ LET err == pauseErr(c) IN
       IF err # "ok" THEN Fails("pause", c, 0, err)
       ELSE /\ paused' = TRUE
            /\ Note("pause", c, 0, "ok")
            /\ UNCHANGED <<roles, amount, isFunded, isReleased, isRefunded, entered,
                           balance, wallet, events, payouts, stack, factory, registry>>

unpauseErr(c) ==
    IF c # owner THEN "OwnableUnauthorizedAccount"
    ELSE IF ~paused THEN "ExpectedPause"
    ELSE "ok"

unpause_staysPaused(c) ==
    /\ created
    /\ LET err == unpauseErr(c) IN
       IF err # "ok" THEN Fails("unpause", c, 0, err)
       ELSE /\ Note("unpause", c, 0, "ok")
            /\ UNCHANGED <<roles, fields, stack, factory, registry>>

unpause(c) ==
    /\ created
    /\ LET err == unpauseErr(c) IN
       IF err # "ok" THEN Fails("unpause", c, 0, err)
       ELSE /\ paused' = FALSE
            /\ Note("unpause", c, 0, "ok")
            /\ UNCHANGED <<roles, amount, isFunded, isReleased, isRefunded, entered,
                           balance, wallet, events, payouts, stack, factory, registry>>

emergencyWithdrawErr_noWhenPaused(c) ==
    IF c # owner THEN "OwnableUnauthorizedAccount"
    ELSE "ok"

emergencyWithdrawErr(c) ==
    IF c # owner THEN "OwnableUnauthorizedAccount"
    ELSE IF ~paused THEN "ExpectedPause"
    ELSE "ok"

emergencyWithdraw(c) ==
    /\ created
    /\ LET err == emergencyWithdrawErr(c) IN
       IF err # "ok" THEN Fails("emergencyWithdraw", c, 0, err)
       ELSE IF balance > 0
       THEN /\ Len(stack) < MaxDepth
            /\ Transfer("emergencyWithdraw", c, owner, balance)
            /\ Note("emergencyWithdraw", c, 0, "pending")
            /\ UNCHANGED <<roles, amount, isFunded, isReleased, isRefunded, paused,
                           entered, events, payouts, factory, registry>>
       ELSE /\ Note("emergencyWithdraw", c, 0, "ok")
            /\ UNCHANGED <<roles, fields, stack, factory, registry>>

\* ---- the recipient of the innermost call in flight returns ----
Top == stack[Len(stack)]

TransferSucceed ==
    /\ stack # <<>>
    /\ stack' = SubSeq(stack, 1, Len(stack) - 1)
    /\ IF Top.op = "release"
       THEN /\ events' = Append(events, [name |-> "Released", who |-> beneficiary, amount |-> amount])
            /\ entered' = FALSE
       ELSE IF Top.op = "refund"
       THEN /\ events' = Append(events, [name |-> "Refunded", who |-> depositor, amount |-> amount])
            /\ entered' = FALSE
       ELSE UNCHANGED <<events, entered>>
    /\ Note(Top.op, Top.caller, 0, "ok")
    /\ UNCHANGED <<roles, amount, isFunded, isReleased, isRefunded, paused,
                   balance, wallet, payouts, factory, registry>>

TransferFail_keepsFlag ==
    /\ stack # <<>>
    /\ stack' = SubSeq(stack, 1, Len(stack) - 1)
    /\ amount' = Top.snap.amount
    /\ isFunded' = Top.snap.isFunded
    /\ isReleased' = (Top.snap.isReleased \/ Top.op = "release")
    /\ isRefunded' = (Top.snap.isRefunded \/ Top.op = "refund")
    /\ paused' = Top.snap.paused
    /\ entered' = Top.snap.entered
    /\ balance' = Top.snap.balance
    /\ wallet' = Top.snap.wallet
    /\ events' = Top.snap.events
    /\ payouts' = Top.snap.payouts
    /\ Note(Top.op, Top.caller, 0, "TransferFailed")
    /\ UNCHANGED <<roles, factory, registry>>

\* ---- the recipient reverts: require(success) reverts the whole call ----
TransferFail ==
    /\ stack # <<>>
    /\ stack' = SubSeq(stack, 1, Len(stack) - 1)
    /\ Restore(Top.snap)
    /\ Note(Top.op, Top.caller, 0, "TransferFailed")
    /\ UNCHANGED <<roles, factory, registry>>

\* ---- factory: pause / unpause (called from outside any call in flight) ----
factoryPauseErr(c) ==
    IF c # factoryOwner THEN "OwnableUnauthorizedAccount"
    ELSE IF factoryPaused THEN "EnforcedPause"
    ELSE "ok"

factoryPause_pausesAgreements(c) ==
    /\ stack = <<>>
    /\ LET err == factoryPauseErr(c) IN
       IF err # "ok" THEN Fails("factory.pause", c, 0, err)
       ELSE /\ factoryPaused' = TRUE
            /\ agreements' = [e \in EscrowIds |->
                                 [agreements[e] EXCEPT !.paused = agreements[e].exists]]
            /\ Note("factory.pause", c, 0, "ok")
            /\ UNCHANGED <<roles, fields, stack, factoryOwner, escrows, userEscrows,
                           escrowInfo>>

factoryPause(c) ==
    /\ stack = <<>>
    /\ LET err == factoryPauseErr(c) IN
       IF err # "ok" THEN Fails("factory.pause", c, 0, err)
       ELSE /\ factoryPaused' = TRUE
            /\ Note("factory.pause", c, 0, "ok")
            /\ UNCHANGED <<roles, fields, stack, factoryOwner, registry>>

factoryUnpauseErr(c) ==
    IF c # factoryOwner THEN "OwnableUnauthorizedAccount"
    ELSE IF ~factoryPaused THEN "ExpectedPause"
    ELSE "ok"

factoryUnpause(c) ==
    /\ stack = <<>>
    /\ LET err == factoryUnpauseErr(c) IN
       IF err # "ok" THEN Fails("factory.unpause", c, 0, err)
       ELSE /\ factoryPaused' = FALSE
            /\ Note("factory.unpause", c, 0, "ok")
            /\ UNCHANGED <<roles, fields, stack, factoryOwner, registry>>

\* ---------------------------------------------------------------------------
\* The factory's registry and the agreements that exist
\* ---------------------------------------------------------------------------
\* The registry and the agreements as one value, so that createEscrow can be
\* applied several times within one call.
Registry ==
    [agreements |-> agreements, escrows |-> escrows,
     userEscrows |-> userEscrows, escrowInfo |-> escrowInfo]

\* The address a new agreement gets: the first one not taken.
FreeIds(reg) == {e \in EscrowIds : ~reg.agreements[e].exists}

\* There is room for n more agreements: at most MaxEscrows exist, except that
\* a batch of full length always fits on top of them.
Room(reg, n) ==
    Cardinality(EscrowIds \ FreeIds(reg)) + n
        <= (IF n < MaxBatch THEN MaxEscrows ELSE MaxEscrows + MaxBatch)
NewAddress(reg) == CHOOSE e \in FreeIds(reg) : \A f \in FreeIds(reg) : e <= f

NewAgreement_rolesSwapped(d, b, a, v) ==
    [exists |-> TRUE, depositor |-> d, beneficiary |-> a, arbiter |-> b,
     owner |-> d, amount |-> 0, isFunded |-> FALSE, isReleased |-> FALSE,
     isRefunded |-> FALSE, paused |-> FALSE, balance |-> v]

\* The state the constructor leaves: the depositor is made the owner.
NewAgreement(d, b, a, v) ==
    [exists |-> TRUE, depositor |-> d, beneficiary |-> b, arbiter |-> a,
     owner |-> d, amount |-> 0, isFunded |-> FALSE, isReleased |-> FALSE,
     isRefunded |-> FALSE, paused |-> FALSE, balance |-> v]

\* The checks of createEscrow in their order, then those of the constructor
\* it calls with msg.sender as depositor.
createEscrowErr(c, b, a) ==
    IF b = NullAddr THEN "InvalidAddress"
    ELSE IF a = NullAddr THEN "InvalidAddress"
    ELSE IF b = a THEN "InvalidAddress"
    ELSE IF b = c THEN "InvalidAddress"
    ELSE IF a = c THEN "InvalidAddress"
    ELSE constructorErr(c, b, a)

createEscrow_beneficiaryFirst(reg, c, b, a, t) ==
    LET e == NewAddress(reg) IN
    [agreements |-> [reg.agreements EXCEPT ![e] = NewAgreement(b, c, a, 0)],
     escrowInfo |-> [reg.escrowInfo EXCEPT ![e] =
                        [depositor |-> c, beneficiary |-> b, arbiter |-> a,
                         createdAt |-> t, exists |-> TRUE]],
     escrows |-> Append(reg.escrows, e),
     userEscrows |-> [reg.userEscrows EXCEPT ![c] = Append(@, e)]]

createEscrow_noUserIndex(reg, c, b, a, t) ==
    LET e == NewAddress(reg) IN
    [agreements |-> [reg.agreements EXCEPT ![e] = NewAgreement(c, b, a, 0)],
     escrowInfo |-> [reg.escrowInfo EXCEPT ![e] =
                        [depositor |-> c, beneficiary |-> b, arbiter |-> a,
                         createdAt |-> t, exists |-> TRUE]],
     escrows |-> Append(reg.escrows, e),
     userEscrows |-> reg.userEscrows]

createEscrow_noGlobalPush(reg, c, b, a, t) ==
    LET e == NewAddress(reg) IN
    [agreements |-> [reg.agreements EXCEPT ![e] = NewAgreement(c, b, a, 0)],
     escrowInfo |-> [reg.escrowInfo EXCEPT ![e] =
                        [depositor |-> c, beneficiary |-> b, arbiter |-> a,
                         createdAt |-> t, exists |-> TRUE]],
     escrows |-> reg.escrows,
     userEscrows |-> [reg.userEscrows EXCEPT ![c] = Append(@, e)]]

createEscrow_prepends(reg, c, b, a, t) ==
    LET e == NewAddress(reg) IN
    [agreements |-> [reg.agreements EXCEPT ![e] = NewAgreement(c, b, a, 0)],
     escrowInfo |-> [reg.escrowInfo EXCEPT ![e] =
                        [depositor |-> c, beneficiary |-> b, arbiter |-> a,
                         createdAt |-> t, exists |-> TRUE]],
     escrows |-> <<e>> \o reg.escrows,
     userEscrows |-> [reg.userEscrows EXCEPT ![c] = Append(@, e)]]

\* createEscrow once its checks have passed: the new agreement, its registry
\* entry, and its address appended to both indexes.
createEscrow_infoRolesSwapped(reg, c, b, a, t) ==
    LET e == NewAddress(reg) IN
    [agreements |-> [reg.agreements EXCEPT ![e] = NewAgreement(c, b, a, 0)],
     escrowInfo |-> [reg.escrowInfo EXCEPT ![e] =
                        [depositor |-> c, beneficiary |-> a, arbiter |-> b,
                         createdAt |-> t, exists |-> TRUE]],
     escrows |-> Append(reg.escrows, e),
     userEscrows |-> [reg.userEscrows EXCEPT ![c] = Append(@, e)]]

createEscrow(reg, c, b, a, t) ==
    LET e == NewAddress(reg) IN
    [agreements |-> [reg.agreements EXCEPT ![e] = NewAgreement(c, b, a, 0)],
     escrowInfo |-> [reg.escrowInfo EXCEPT ![e] =
                        [depositor |-> c, beneficiary |-> b, arbiter |-> a,
                         createdAt |-> t, exists |-> TRUE]],
     escrows |-> Append(reg.escrows, e),
     userEscrows |-> [reg.userEscrows EXCEPT ![c] = Append(@, e)]]

SetRegistry(reg) ==
    /\ agreements' = reg.agreements
    /\ escrows' = reg.escrows
    /\ userEscrows' = reg.userEscrows
    /\ escrowInfo' = reg.escrowInfo

createEscrowExternalErr_noPauseCheck(c, b, a) == createEscrowErr(c, b, a)

createEscrowExternalErr(c, b, a) ==
    IF factoryPaused THEN "EnforcedPause" ELSE createEscrowErr(c, b, a)

createEscrowExternal(c, b, a, t) ==
    /\ Room(Registry, 1)
    /\ LET err == createEscrowExternalErr(c, b, a) IN
       IF err # "ok" THEN Fails("factory.createEscrowExternal", c, 0, err)
       ELSE /\ SetRegistry(createEscrow(Registry, c, b, a, t))
            /\ Note("factory.createEscrowExternal", c, 0, "ok")
            /\ UNCHANGED <<roles, fields, stack, factory>>

\* ---- createMultipleEscrows ----
\* The arrays a batch is called with: of one, two or MaxBatch pairs, all the
\* same (valid for every caller but the beneficiary named), or with a null
\* beneficiary in the last or in the first pair; empty arrays; arrays of
\* different lengths; and arrays of MaxBatch + 1 pairs.
Rep(n, x) == [i \in 1..n |-> x]
BatchLens == {1, 2, MaxBatch}
BatchArgs ==
    {<<Rep(n, 2), Rep(n, 3)>> : n \in BatchLens}
    \cup {<<[Rep(n, 2) EXCEPT ![n] = NullAddr], Rep(n, 3)>> : n \in BatchLens}
    \cup {<<[Rep(n, 2) EXCEPT ![1] = NullAddr], Rep(n, 3)>> : n \in BatchLens}
    \cup {<< <<>>, <<>> >>}
    \cup {<<Rep(1, 2), <<>> >>, << <<>>, Rep(1, 3)>>, <<Rep(MaxBatch + 1, 2), Rep(MaxBatch, 3)>>}
    \cup {<<Rep(MaxBatch + 1, 2), Rep(MaxBatch + 1, 3)>>}
    \cup {<< <<2, 3>>, <<3, 2>> >>}

createMultipleEscrowsErr_offByOne(c, bs, as) ==
    IF factoryPaused THEN "EnforcedPause"
    ELSE IF Len(bs) # Len(as) THEN "ArraysLengthMismatch"
    ELSE IF Len(bs) = 0 THEN "EmptyArrays"
    ELSE IF Len(bs) >= MaxBatch THEN "TooManyEscrows"
    ELSE "ok"

\* The modifier and the three checks ahead of the loop, in their order.
createMultipleEscrowsErr(c, bs, as) ==
    IF factoryPaused THEN "EnforcedPause"
    ELSE IF Len(bs) # Len(as) THEN "ArraysLengthMismatch"
    ELSE IF Len(bs) = 0 THEN "EmptyArrays"
    ELSE IF Len(bs) > MaxBatch THEN "TooManyEscrows"
    ELSE "ok"

\* The loop from pair i on.  createBatchErr is the error of the first pair
\* that createEscrow refuses; createBatch is the registry as the loop has
\* built it when it stops, at that pair or at the end of the arrays.
RECURSIVE createBatchErr(_, _, _, _)
createBatchErr(c, bs, as, i) ==
    IF i > Len(bs) THEN "ok"
    ELSE LET err == createEscrowErr(c, bs[i], as[i]) IN
         IF err # "ok" THEN err ELSE createBatchErr(c, bs, as, i + 1)

RECURSIVE createBatch_lastFirst(_, _, _, _, _, _)
createBatch_lastFirst(reg, c, bs, as, t, i) ==
    IF i > Len(bs) \/ createEscrowErr(c, bs[i], as[i]) # "ok" THEN reg
    ELSE createBatch_lastFirst(createEscrow(reg, c, bs[Len(bs) + 1 - i],
                                            as[Len(bs) + 1 - i], t),
                               c, bs, as, t, i + 1)

RECURSIVE createBatch(_, _, _, _, _, _)
createBatch(reg, c, bs, as, t, i) ==
    IF i > Len(bs) \/ createEscrowErr(c, bs[i], as[i]) # "ok" THEN reg
    ELSE createBatch(createEscrow(reg, c, bs[i], as[i], t), c, bs, as, t, i + 1)

createMultipleEscrows_keepsPartial(c, bs, as, t) ==
    LET pre == createMultipleEscrowsErr(c, bs, as) IN
    /\ pre = "ok" => Room(Registry, Len(bs))
    /\ IF pre # "ok" THEN Fails("factory.createMultipleEscrows", c, 0, pre)
       ELSE /\ Note("factory.createMultipleEscrows", c, 0, createBatchErr(c, bs, as, 1))
            /\ SetRegistry(createBatch(Registry, c, bs, as, t, 1))
            /\ UNCHANGED <<roles, fields, stack, factory>>

\* A revert inside the loop undoes the agreements the call created so far.
createMultipleEscrows(c, bs, as, t) ==
    LET pre == createMultipleEscrowsErr(c, bs, as) IN
    /\ pre = "ok" => Room(Registry, Len(bs))
    /\ IF pre # "ok" THEN Fails("factory.createMultipleEscrows", c, 0, pre)
       ELSE LET err == createBatchErr(c, bs, as, 1) IN
            IF err # "ok" THEN Fails("factory.createMultipleEscrows", c, 0, err)
            ELSE /\ Note("factory.createMultipleEscrows", c, 0, "ok")
                 /\ SetRegistry(createBatch(Registry, c, bs, as, t, 1))
                 /\ UNCHANGED <<roles, fields, stack, factory>>

\* An agreement constructed directly, outside the factory: the registry does
\* not learn of it.
deploy(d, b, a, v) ==
    /\ Room(Registry, 1)
    /\ LET err == constructorErr(d, b, a) IN
       IF err # "ok" THEN Fails("deploy", NullAddr, v, err)
       ELSE /\ agreements' = [agreements EXCEPT
                                 ![NewAddress(Registry)] = NewAgreement(d, b, a, v)]
            /\ Note("deploy", NullAddr, v, "ok")
            /\ UNCHANGED <<roles, fields, stack, factory, escrows, userEscrows, escrowInfo>>

NextFactory ==
    \/ \E c \in Creators, b \in BeneficiaryArgs, a \in ArbiterArgs, t \in Times :
          createEscrowExternal(c, b, a, t)
    \/ \E c \in Creators, ba \in BatchArgs, t \in Times :
          createMultipleEscrows(c, ba[1], ba[2], t)
    \/ \E d \in DepositorArgs, b \in BeneficiaryArgs, a \in ArbiterArgs, v \in 0..MaxInitValue :
          deploy(d, b, a, v)
    \/ \E c \in Addr : factoryPause(c)
    \/ \E c \in Addr : factoryUnpause(c)

SpecFactory == Init /\ [][NextFactory]_vars

\* ---------------------------------------------------------------------------
\* Agreements created by the factory, each with its own state
\* ---------------------------------------------------------------------------
\* The calls of TrustEscrow on the agreement at address e.  The parties are
\* externally owned accounts: a transfer to them neither fails nor calls back,
\* so a call completes in one step and the reentrancy guard is never found
\* entered.
Operated == 1..2     \* the addresses whose agreements are called
Parties == 1..3      \* the callers: the two creators and the arbiter

depositErrOf(ag, c, v) ==
    IF c # ag.depositor THEN "OnlyDepositor"
    ELSE IF ag.isFunded THEN "AlreadyFunded"
    ELSE IF ag.paused THEN "EnforcedPause"
    ELSE IF v = 0 THEN "InvalidAmount"
    ELSE "ok"

escrowDeposit(e, c, v) ==
    /\ agreements[e].exists
    /\ wallet[c] >= v
    /\ LET err == depositErrOf(agreements[e], c, v) IN
       IF err # "ok" THEN Fails("escrow.deposit", c, v, err)
       ELSE /\ agreements' = [agreements EXCEPT ![e].amount = v,
                                                ![e].isFunded = TRUE,
                                                ![e].balance = @ + v]
            /\ wallet' = [wallet EXCEPT ![c] = @ - v]
            /\ Note("escrow.deposit", c, v, "ok")
            /\ UNCHANGED <<roles, amount, isFunded, isReleased, isRefunded, paused,
                           entered, balance, events, payouts, stack, factory,
                           escrows, userEscrows, escrowInfo>>

resolveErrOf_pauseFirst(ag, c) ==
    IF c # ag.arbiter THEN "OnlyArbiter"
    ELSE IF ~ag.isFunded THEN "NotFunded"
    ELSE IF ag.paused THEN "EnforcedPause"
    ELSE IF ag.isReleased \/ ag.isRefunded THEN "AlreadyReleased"
    ELSE IF ag.balance < ag.amount THEN "TransferFailed"
    ELSE "ok"

resolveErrOf(ag, c) ==
    IF c # ag.arbiter THEN "OnlyArbiter"
    ELSE IF ~ag.isFunded THEN "NotFunded"
    ELSE IF ag.isReleased \/ ag.isRefunded THEN "AlreadyReleased"
    ELSE IF ag.paused THEN "EnforcedPause"
    ELSE IF ag.balance < ag.amount THEN "TransferFailed"
    ELSE "ok"

\* The agreement sends amount to the recipient.
Pay(e, to) ==
    /\ wallet' = [wallet EXCEPT ![to] = @ + agreements[e].amount]
    /\ UNCHANGED <<roles, amount, isFunded, isReleased, isRefunded, paused,
                   entered, balance, events, payouts, stack, factory,
                   escrows, userEscrows, escrowInfo>>

escrowRelease(e, c) ==
    /\ agreements[e].exists
    /\ LET err == resolveErrOf(agreements[e], c) IN
       IF err # "ok" THEN Fails("escrow.release", c, 0, err)
       ELSE /\ agreements' = [agreements EXCEPT ![e].isReleased = TRUE,
                                                ![e].balance = @ - agreements[e].amount]
            /\ Pay(e, agreements[e].beneficiary)
            /\ Note("escrow.release", c, 0, "ok")

escrowRefund_clearsFunded(e, c) ==
    /\ agreements[e].exists
    /\ LET err == resolveErrOf(agreements[e], c) IN
       IF err # "ok" THEN Fails("escrow.refund", c, 0, err)
       ELSE /\ agreements' = [agreements EXCEPT ![e].isRefunded = TRUE,
                                                ![e].isFunded = FALSE,
                                                ![e].balance = @ - agreements[e].amount]
            /\ Pay(e, agreements[e].depositor)
            /\ Note("escrow.refund", c, 0, "ok")

escrowRefund(e, c) ==
    /\ agreements[e].exists
    /\ LET err == resolveErrOf(agreements[e], c) IN
       IF err # "ok" THEN Fails("escrow.refund", c, 0, err)
       ELSE /\ agreements' = [agreements EXCEPT ![e].isRefunded = TRUE,
                                                ![e].balance = @ - agreements[e].amount]
            /\ Pay(e, agreements[e].depositor)
            /\ Note("escrow.refund", c, 0, "ok")

pauseErrOf(ag, c) ==
    IF c # ag.owner THEN "OwnableUnauthorizedAccount"
    ELSE IF ag.paused THEN "EnforcedPause"
    ELSE "ok"

escrowPause(e, c) ==
    /\ agreements[e].exists
    /\ LET err == pauseErrOf(agreements[e], c) IN
       IF err # "ok" THEN Fails("escrow.pause", c, 0, err)
       ELSE /\ agreements' = [agreements EXCEPT ![e].paused = TRUE]
            /\ Note("escrow.pause", c, 0, "ok")
            /\ UNCHANGED <<roles, fields, stack, factory, escrows, userEscrows,
                           escrowInfo>>

unpauseErrOf(ag, c) ==
    IF c # ag.owner THEN "OwnableUnauthorizedAccount"
    ELSE IF ~ag.paused THEN "ExpectedPause"
    ELSE "ok"

escrowUnpause(e, c) ==
    /\ agreements[e].exists
    /\ LET err == unpauseErrOf(agreements[e], c) IN
       IF err # "ok" THEN Fails("escrow.unpause", c, 0, err)
       ELSE /\ agreements' = [agreements EXCEPT ![e].paused = FALSE]
            /\ Note("escrow.unpause", c, 0, "ok")
            /\ UNCHANGED <<roles, fields, stack, factory, escrows, userEscrows,
                           escrowInfo>>

\* Batches in which several checks fail at once, next to one that passes
\* them all: lengths that differ with too many or with an invalid pair, too
\* many pairs with an invalid one, no pair, and single pairs.
FailingBatches ==
    {<<Rep(MaxBatch + 1, 2), Rep(MaxBatch, 3)>>,
     <<Rep(1, NullAddr), <<>> >>,
     <<Rep(MaxBatch + 1, NullAddr), Rep(MaxBatch + 1, 3)>>,
     << <<>>, <<>> >>,
     <<Rep(1, NullAddr), Rep(1, 3)>>,
     <<Rep(1, 2), Rep(1, 3)>>}

\* The factory and the agreements it created, called in any order.
NextAgreements ==
    \/ \E c \in Creators, b \in Creators : createEscrowExternal(c, b, 3, 1)
    \/ \E c \in Creators, ba \in FailingBatches :
          createMultipleEscrows(c, ba[1], ba[2], 1)
    \/ \E c \in Addr : factoryPause(c)
    \/ \E c \in Addr : factoryUnpause(c)
    \/ \E e \in Operated, c \in Parties, v \in Values : escrowDeposit(e, c, v)
    \/ \E e \in Operated, c \in Parties : escrowRelease(e, c)
    \/ \E e \in Operated, c \in Parties : escrowRefund(e, c)
    \/ \E e \in Operated, c \in Creators : escrowPause(e, c)
    \/ \E e \in Operated, c \in Creators : escrowUnpause(e, c)

SpecAgreements == Init /\ [][NextAgreements]_vars

Next ==
    \/ \E d \in DepositorArgs, b \in BeneficiaryArgs, a \in ArbiterArgs, v \in 0..MaxInitValue :
          constructor(d, b, a, v)
    \/ \E c \in Addr, v \in Values : deposit(c, v)
    \/ \E c \in Addr, v \in Values : receive(c, v)
    \/ \E c \in Addr, v \in Values : fallback(c, v)
    \/ \E c \in Addr : release(c)
    \/ \E c \in Addr : refund(c)
    \/ \E c \in Addr : pause(c)
    \/ \E c \in Addr : unpause(c)
    \/ \E c \in Addr : emergencyWithdraw(c)
    \/ TransferSucceed
    \/ TransferFail
    \/ \E c \in Addr : factoryPause(c)
    \/ \E c \in Addr : factoryUnpause(c)

Spec == Init /\ [][Next]_vars

\* ---------------------------------------------------------------------------
\* Properties
\* ---------------------------------------------------------------------------
Resolutions == {i \in DOMAIN events : events[i].name \in {"Released", "Refunded"}}
Deposits == {i \in DOMAIN events : events[i].name = "Deposited"}

\* C1: once the agreement is funded, its balance decreases only through a
\* release or a refund called by the arbiter: a completed call of any other
\* identity never leaves the agreement with a lower balance than before.
C1_OnlyArbiterMovesFunds ==
    [][(Committed.isFunded /\ Committed'.balance < Committed.balance)
          => (last'.caller = arbiter /\ last'.op \in {"release", "refund"})]_vars

\* C2: isReleased and isRefunded are never both true, in flight or not, and
\* at most one release or refund ever succeeds: the log never holds more than
\* one Released or Refunded record and at most one payout was ever made.
C2_MutuallyExclusive ==
    /\ ~(isReleased /\ isRefunded)
    /\ Cardinality(Resolutions) <= 1
    /\ Len(payouts) <= 1

\* A refund that the arbiter attempts from within a release in flight is refused.
C2_Witness ==
    /\ stack # <<>> /\ Top.op = "release" /\ isReleased
    /\ last = Call("refund", arbiter, 0, "AlreadyReleased")

\* C3: Released and Refunded are terminal: from a state that a completed call
\* left released or refunded, no step (deposit, release, refund, direct value
\* transfer, or any other) changes amount, isFunded, isReleased or isRefunded.
C3_Terminal ==
    [][(Committed.isReleased \/ Committed.isRefunded)
          => /\ UNCHANGED <<amount, isFunded, isReleased, isRefunded>>
             /\ Committed'.amount = Committed.amount
             /\ Committed'.isFunded = Committed.isFunded
             /\ Committed'.isReleased = Committed.isReleased
             /\ Committed'.isRefunded = Committed.isRefunded]_vars

\* The depositor sends value directly to a refunded agreement: it is accepted,
\* and the amount stays what it was.
C3_Witness ==
    /\ stack = <<>> /\ isRefunded
    /\ last.op = "receive" /\ last.result = "ok" /\ last.value # amount

\* C4: an agreement is never marked terminal without having paid out:
\* isReleased implies that release made exactly one value transfer, of exactly
\* amount, to the beneficiary, and isRefunded that refund made exactly one, of
\* exactly amount, to the depositor; the step that makes the transfer takes
\* amount from the agreement's balance and adds it to the recipient's funds.
C4_PaidOut ==
    /\ [](isReleased => payouts = <<[op |-> "release", to |-> beneficiary, value |-> amount]>>)
    /\ [](isRefunded => payouts = <<[op |-> "refund", to |-> depositor, value |-> amount]>>)
    /\ [](~(isReleased \/ isRefunded) => payouts = <<>>)
    /\ [][(last'.result = "pending" /\ last'.op \in {"release", "refund"})
            => LET to == IF last'.op = "release" THEN beneficiary ELSE depositor IN
               /\ wallet'[to] = wallet[to] + amount
               /\ balance' = balance - amount
               /\ \A a \in Addr \ {to} : wallet'[a] = wallet[a]]_vars

\* A refund has completed.
C4_Witness ==
    /\ stack = <<>> /\ isRefunded /\ amount > 0
    /\ last = Call("refund", arbiter, 0, "ok")

\* C5: when the value transfer of release or refund fails, the call fails
\* and the state is exactly the state before the call: not released, not
\* refunded, same balance, same log, still funded, unpaused and with a free
\* guard, so that the arbiter can release or refund later.
C5_TransferFailureReverts ==
    [][(last'.result = "TransferFailed" /\ last'.op \in {"release", "refund"})
          => LET pre == IF Len(stack') < Len(stack) THEN Top.snap ELSE Snapshot IN
             /\ Snapshot' = pre
             /\ pre.isFunded /\ ~pre.isReleased /\ ~pre.isRefunded
             /\ ~pre.paused /\ ~pre.entered
             /\ balance' = pre.balance /\ events' = pre.events
             /\ ~isReleased' /\ ~isRefunded']_vars

\* The beneficiary has refused the value of a release; the agreement is back
\* in the state in which the arbiter can resolve it.
C5_Witness ==
    /\ stack = <<>>
    /\ last = Call("release", arbiter, 0, "TransferFailed")
    /\ balance >= amount /\ amount > 0
    /\ resolveErr(arbiter) = "ok"

\* C6: authorization: deposit by anyone but the depositor fails with
\* OnlyDepositor; release and refund by anyone but the arbiter fail with
\* OnlyArbiter; pause, unpause and emergencyWithdraw of the agreement by
\* anyone but its owner, and pause and unpause of the factory by anyone but
\* the factory's owner, fail; each such call leaves all state unchanged.
Unauthorized ==
    {"OnlyDepositor", "OnlyArbiter", "OwnableUnauthorizedAccount"}

C6_Authorization ==
    [][LET l == last' IN
       /\ (l.op = "deposit" /\ l.caller # depositor) => l.result = "OnlyDepositor"
       /\ (l.op \in {"release", "refund"} /\ l.caller # arbiter)
             => l.result = "OnlyArbiter"
       /\ (l.op \in {"pause", "unpause", "emergencyWithdraw"} /\ l.caller # owner)
             => l.result = "OwnableUnauthorizedAccount"
       /\ (l.op \in {"factory.pause", "factory.unpause"} /\ l.caller # factoryOwner)
             => l.result = "OwnableUnauthorizedAccount"
       /\ l.result \in Unauthorized => UNCHANGED <<roles, fields, stack, factory, registry>>]_vars

\* The beneficiary tries to release a funded, unresolved agreement to itself.
C6_Witness ==
    /\ isFunded /\ ~isReleased /\ ~isRefunded /\ ~paused /\ balance >= amount
    /\ last = Call("release", beneficiary, 0, "OnlyArbiter")

\* C7: invariant I3: amount > 0 implies isFunded, and an unfunded agreement
\* has amount = 0.
C7_I3 ==
    /\ amount > 0 => isFunded
    /\ ~isFunded => amount = 0

\* The agreement was funded with a positive amount by a direct value transfer.
C7_Witness ==
    /\ isFunded /\ amount > 0
    /\ last = Call("receive", depositor, amount, "ok")

\* C8: funding is exactly-once: once a completed call has left the agreement
\* funded, it stays funded and its amount never changes, whether deposit or a
\* direct value transfer funded it; the log never holds two Deposited records.
C8_FundedOnce ==
    /\ [][Committed.isFunded
            => (Committed'.isFunded /\ Committed'.amount = Committed.amount)]_vars
    /\ [](Cardinality(Deposits) <= 1)
    /\ [](isFunded <=> Deposits # {})

\* A later direct transfer of another value has left the amount alone.
C8_Witness ==
    /\ stack = <<>> /\ isFunded /\ ~isReleased /\ ~isRefunded
    /\ last.op = "receive" /\ last.result = "ok" /\ last.value # amount
    /\ Cardinality(Deposits) = 1

\* C9 (as stated): once the agreement is funded, every deposit call fails
\* with AlreadyFunded and leaves amount, isFunded and the balance unchanged.
C9_AlwaysAlreadyFunded ==
    [][(isFunded /\ last'.op = "deposit")
          => /\ last'.result = "AlreadyFunded"
             /\ UNCHANGED <<amount, isFunded, balance>>]_vars

\* C9 (amended): once the agreement is funded, every deposit call fails, with
\* AlreadyFunded when the depositor calls and with OnlyDepositor when anyone
\* else does, and leaves amount, isFunded and the balance unchanged.
C9_SecondDepositFails ==
    [][(isFunded /\ last'.op = "deposit")
          => /\ last'.result = IF last'.caller = depositor
                               THEN "AlreadyFunded" ELSE "OnlyDepositor"
             /\ UNCHANGED <<amount, isFunded, balance>>]_vars

\* The depositor calls deposit a second time, with value.
C9_Witness ==
    /\ isFunded /\ ~isReleased /\ ~isRefunded
    /\ last = Call("deposit", depositor, 1, "AlreadyFunded")

\* C10: an agreement is never funded with zero value: a funded agreement has
\* amount > 0, whichever path funded it.
C10_FundedImpliesPositive == isFunded => amount > 0

\* C11 (as stated): once release or refund has succeeded, every subsequent
\* call to release or refund fails with AlreadyReleased.
C11_AlwaysAlreadyReleased ==
    [][((Committed.isReleased \/ Committed.isRefunded)
          /\ last'.op \in {"release", "refund"})
          => last'.result = "AlreadyReleased"]_vars

\* C11 (amended): once release or refund has succeeded, every subsequent call
\* to release or refund fails, with AlreadyReleased when the arbiter calls and
\* with OnlyArbiter when anyone else does, and sets no flag.
C11_ResolvedCallFails ==
    [][((Committed.isReleased \/ Committed.isRefunded)
          /\ last'.op \in {"release", "refund"})
          => /\ last'.result = IF last'.caller = arbiter
                               THEN "AlreadyReleased" ELSE "OnlyArbiter"
             /\ UNCHANGED <<isReleased, isRefunded, balance>>]_vars

\* After a completed release the arbiter calls refund.
C11_Witness ==
    /\ stack = <<>>
    /\ isReleased /\ ~isRefunded
    /\ last = Call("refund", arbiter, 0, "AlreadyReleased")

\* A step that is a call made to the agreement, as opposed to the return of
\* the recipient of a transfer in flight.
CallMade == Len(stack') >= Len(stack)

\* C12 (as stated): while the agreement is paused, every call to deposit,
\* release or refund fails with EnforcedPause and leaves the agreement's
\* state unchanged.
C12_AlwaysEnforcedPause ==
    [][(paused /\ CallMade /\ last'.op \in {"deposit", "release", "refund"})
          => /\ last'.result = "EnforcedPause"
             /\ UNCHANGED <<roles, fields>>]_vars

\* C12 (amended): while the agreement is paused, every call to deposit,
\* release or refund fails and leaves the agreement's state unchanged; the
\* error is EnforcedPause when the checks that precede the pause check pass
\* (deposit: the depositor calls an unfunded agreement; release, refund: the
\* arbiter calls a funded, unresolved agreement), and otherwise the error of
\* the first of those checks that fails.
C12_PausedCallFails ==
    [][(paused /\ CallMade /\ last'.op \in {"deposit", "release", "refund"})
          => /\ last'.result =
                   IF last'.op = "deposit"
                   THEN IF last'.caller # depositor THEN "OnlyDepositor"
                        ELSE IF isFunded THEN "AlreadyFunded"
                        ELSE "EnforcedPause"
                   ELSE IF last'.caller # arbiter THEN "OnlyArbiter"
                        ELSE IF ~isFunded THEN "NotFunded"
                        ELSE IF isReleased \/ isRefunded THEN "AlreadyReleased"
                        ELSE "EnforcedPause"
             /\ UNCHANGED <<roles, fields>>]_vars

\* The arbiter calls release on a paused, funded, unresolved agreement.
C12_Witness ==
    /\ paused /\ isFunded /\ ~isReleased /\ ~isRefunded
    /\ last = Call("release", arbiter, 0, "EnforcedPause")

\* C13: pausing gates the lifecycle and never alters it: no call made to a
\* paused agreement, by any caller and through any entry point, a direct
\* value transfer included, changes amount, isFunded, isReleased or isRefunded.
C13_PausedLifecycleFrozen ==
    [][Committed.paused
          => /\ Committed'.amount = Committed.amount
             /\ Committed'.isFunded = Committed.isFunded
             /\ Committed'.isReleased = Committed.isReleased
             /\ Committed'.isRefunded = Committed.isRefunded]_vars

\* C14: pause followed by unpause is the identity on the agreement's state.
\* A successful pause starts from an unpaused state and changes only paused
\* (to true); a successful unpause starts from a paused state and changes
\* only paused (to false). Their composition therefore returns every reachable
\* unpaused state s to s in every field (roles, amount, flags, balance, guard,
\* paused), and with it the outcome of every operation by every caller.
C14_PauseUnpauseIdentity ==
    /\ [][(last'.op = "pause" /\ last'.result = "ok")
             => /\ ~paused /\ paused'
                /\ UNCHANGED <<roles, amount, isFunded, isReleased, isRefunded,
                               entered, balance, wallet, stack>>]_vars
    /\ [][(last'.op = "unpause" /\ last'.result = "ok")
             => /\ paused /\ ~paused'
                /\ UNCHANGED <<roles, amount, isFunded, isReleased, isRefunded,
                               entered, balance, wallet, stack>>]_vars

\* A funded agreement has just been paused and unpaused by its owner.
C14_Witness ==
    /\ isFunded /\ ~isReleased /\ ~isRefunded /\ ~paused
    /\ balance = amount
    /\ last = Call("unpause", owner, 0, "ok")

\* C15 (as stated): emergencyWithdraw never succeeds on an agreement that is
\* not paused: called with paused = false it fails with ExpectedPause and
\* leaves the balance and all flags unchanged.
C15_AlwaysExpectedPause ==
    [][(~paused /\ CallMade /\ last'.op = "emergencyWithdraw")
          => /\ last'.result = "ExpectedPause"
             /\ UNCHANGED <<roles, fields>>]_vars

\* C15 (amended): emergencyWithdraw never succeeds on an agreement that is
\* not paused: called with paused = false it fails, with ExpectedPause when
\* the owner calls and with OwnableUnauthorizedAccount when anyone else does,
\* and leaves the balance and all flags unchanged.
C15_UnpausedWithdrawFails ==
    [][(~paused /\ CallMade /\ last'.op = "emergencyWithdraw")
          => /\ last'.result = IF last'.caller = owner
                               THEN "ExpectedPause"
                               ELSE "OwnableUnauthorizedAccount"
             /\ UNCHANGED <<roles, fields>>]_vars

\* The owner calls emergencyWithdraw on an unpaused agreement that holds funds.
C15_Witness ==
    /\ ~paused /\ isFunded /\ balance > 0
    /\ last = Call("emergencyWithdraw", owner, 0, "ExpectedPause")

\* C16: a direct value transfer to the agreement (no deposit call) by any
\* identity other than the depositor is rejected in every state, and leaves
\* the balance, amount and all flags unchanged.
C16_StrangerTransferRejected ==
    [][(CallMade /\ last'.op \in {"receive", "fallback"}
          /\ last'.caller # depositor)
          => /\ last'.result = IF last'.op = "receive"
                               THEN "OnlyDepositorCanSendETH"
                               ELSE "Function not found"
             /\ UNCHANGED <<roles, fields>>]_vars

\* The beneficiary sends value to an unfunded agreement and is refused.
C16_Witness ==
    /\ ~isFunded /\ balance = 0
    /\ last = Call("receive", beneficiary, 1, "OnlyDepositorCanSendETH")

\* C17: a direct value transfer of v by the depositor is equivalent to the
\* depositor calling deposit with value v: where deposit would succeed the
\* transfer succeeds with deposit's result (amount = v, isFunded = true, one
\* Deposited record, the balance up by v), and where deposit would fail
\* (already funded, paused, v = 0) the transfer fails with no state change.
C17_DirectTransferIsDeposit ==
    [][(CallMade /\ last'.op = "receive" /\ last'.caller = depositor)
          => IF depositErr(depositor, last'.value) = "ok"
             THEN /\ last'.result = "ok"
                  /\ amount' = last'.value
                  /\ isFunded'
                  /\ balance' = balance + last'.value
                  /\ events' = Append(events, [name |-> "Deposited", who |-> depositor,
                                               amount |-> last'.value])
             ELSE /\ last'.result # "ok"
                  /\ UNCHANGED <<roles, fields>>]_vars

\* C18: deposit, release, refund and emergencyWithdraw hold a single-entry
\* guard. While a value transfer made by one of them is in flight, no call of
\* the recipient into the same agreement changes its balance, amount or
\* flags; and the guard is free whenever no call is in flight, so a later
\* top-level call is never refused as re-entrant.
C18_SingleEntry ==
    /\ [][(stack # <<>> /\ CallMade /\ last'.caller = Top.to)
             => UNCHANGED <<balance, amount, isFunded, isReleased, isRefunded>>]_vars
    /\ [](stack = <<>> => ~entered)
    /\ [][(stack = <<>>) => last'.result # "ReentrancyGuardReentrantCall"]_vars

\* The agreements that exist, created through the factory or directly.
Existing == {e \in EscrowIds : agreements[e].exists}

\* C19 (I1): in every agreement that exists, created through the factory or
\* constructed directly, depositor, beneficiary and arbiter are pairwise
\* distinct and none is the null address; and none of the three changes once
\* the agreement exists.
C19_I1 ==
    /\ [](\A e \in Existing :
             /\ agreements[e].depositor # NullAddr
             /\ agreements[e].beneficiary # NullAddr
             /\ agreements[e].arbiter # NullAddr
             /\ agreements[e].depositor # agreements[e].beneficiary
             /\ agreements[e].depositor # agreements[e].arbiter
             /\ agreements[e].beneficiary # agreements[e].arbiter)
    /\ [][\A e \in Existing :
             /\ agreements'[e].exists
             /\ agreements'[e].depositor = agreements[e].depositor
             /\ agreements'[e].beneficiary = agreements[e].beneficiary
             /\ agreements'[e].arbiter = agreements[e].arbiter]_vars

\* One agreement created through the factory and one constructed directly
\* exist side by side.
C19_Witness ==
    /\ Cardinality(Existing) = 2
    /\ \E e \in Existing : escrowInfo[e].exists
    /\ \E e \in Existing : ~escrowInfo[e].exists
    /\ last.op \in {"factory.createEscrowExternal", "deploy"} /\ last.result = "ok"

\* C20: the administrator of an agreement (its owner, who may call pause,
\* unpause and emergencyWithdraw) is distinct from the agreement's depositor,
\* beneficiary and arbiter, in every agreement created through the factory or
\* constructed directly.
C20_AdministratorDistinct ==
    \A e \in Existing :
        agreements[e].owner \notin {agreements[e].depositor,
                                    agreements[e].beneficiary,
                                    agreements[e].arbiter}

\* getEscrowStatus, read from the state ag of an agreement.
getEscrowStatus(ag) ==
    <<ag.depositor, ag.beneficiary, ag.arbiter, ag.amount,
      ag.isFunded, ag.isReleased, ag.isRefunded>>

\* C21: for every valid (depositor, beneficiary, arbiter), the agreement a
\* successful creation leaves, through the factory (the caller is the
\* depositor) or directly, has amount = 0, isFunded = isReleased = isRefunded
\* = false, is not paused, and reports the three given identities from
\* getEscrowStatus.
C21_FreshAgreement ==
    [][/\ \A c \in Creators, b \in BeneficiaryArgs, a \in ArbiterArgs, t \in Times :
             (createEscrowExternal(c, b, a, t) /\ last'.result = "ok")
                => /\ getEscrowStatus(agreements'[NewAddress(Registry)])
                         = <<c, b, a, 0, FALSE, FALSE, FALSE>>
                   /\ ~agreements'[NewAddress(Registry)].paused
       /\ \A d \in DepositorArgs, b \in BeneficiaryArgs, a \in ArbiterArgs,
             v \in 0..MaxInitValue :
             (deploy(d, b, a, v) /\ last'.result = "ok")
                => /\ getEscrowStatus(agreements'[NewAddress(Registry)])
                         = <<d, b, a, 0, FALSE, FALSE, FALSE>>
                   /\ ~agreements'[NewAddress(Registry)].paused]_vars

\* Identity 2 has just created an agreement through the factory, with
\* beneficiary 1 and arbiter 3.
C21_Witness ==
    /\ last = Call("factory.createEscrowExternal", 2, 0, "ok")
    /\ \E e \in Existing :
          /\ getEscrowStatus(agreements[e]) = <<2, 1, 3, 0, FALSE, FALSE, FALSE>>
          /\ escrowInfo[e].exists

\* The arguments createEscrow refuses: a null beneficiary or arbiter, the two
\* equal, or the caller in either role.
InvalidPair(c, b, a) ==
    b = NullAddr \/ a = NullAddr \/ b = a \/ c = b \/ c = a

\* C22 (as stated): createEscrow(beneficiary, arbiter) by caller c fails with
\* InvalidAddress and leaves the global sequence, every per-creator index and
\* the metadata map unchanged whenever the pair is invalid for c; otherwise,
\* the factory not being paused, it succeeds with c as depositor.
C22_InvalidAlwaysInvalidAddress ==
    [][\A c \in Creators, b \in BeneficiaryArgs, a \in ArbiterArgs, t \in Times :
          createEscrowExternal(c, b, a, t)
             => IF InvalidPair(c, b, a)
                THEN /\ last'.result = "InvalidAddress"
                     /\ UNCHANGED registry
                ELSE ~factoryPaused
                        => /\ last'.result = "ok"
                           /\ agreements'[NewAddress(Registry)].depositor = c]_vars

\* C22 (amended): while the factory is not paused, createEscrow(beneficiary,
\* arbiter) by caller c fails with InvalidAddress and leaves the registry
\* unchanged whenever the pair is invalid for c, and otherwise succeeds with c
\* as depositor, beneficiary and arbiter as given, and one new registry entry.
C22_CreateEscrowValidation ==
    [][\A c \in Creators, b \in BeneficiaryArgs, a \in ArbiterArgs, t \in Times :
          (~factoryPaused /\ createEscrowExternal(c, b, a, t))
             => IF InvalidPair(c, b, a)
                THEN /\ last'.result = "InvalidAddress"
                     /\ UNCHANGED registry
                ELSE /\ last'.result = "ok"
                     /\ getEscrowStatus(agreements'[NewAddress(Registry)])
                           = <<c, b, a, 0, FALSE, FALSE, FALSE>>
                     /\ Len(escrows') = Len(escrows) + 1]_vars

\* A caller has named itself beneficiary and was refused.
C22_Witness ==
    /\ ~factoryPaused
    /\ escrows # <<>>
    /\ last = Call("factory.createEscrowExternal", 1, 0, "InvalidAddress")

\* ---- the factory's read accessors ----
getEscrowCount == Len(escrows)
getAllEscrows == escrows
getUserEscrows(c) == userEscrows[c]

RECURSIVE SumOfLengths(_)
SumOfLengths(S) ==
    IF S = {} THEN 0
    ELSE LET c == CHOOSE x \in S : TRUE
         IN Len(getUserEscrows(c)) + SumOfLengths(S \ {c})

CreationOps == {"factory.createEscrowExternal", "factory.createMultipleEscrows"}

\* C23: after any sequence of successful and failed creation calls,
\* getEscrowCount() is the number of agreements created through the factory,
\* getUserEscrows(c).length the number created by caller c, and the lengths of
\* all callers' indexes add up to getEscrowCount().  Step by step: a successful
\* creation call that made n agreements adds n to the count and to its
\* caller's index and nothing to any other index; every other step, failed
\* creation calls included, leaves all of them as they were.
C23_Counts ==
    /\ [](SumOfLengths(Addr) = getEscrowCount)
    /\ [][IF last'.op \in CreationOps /\ last'.result = "ok"
          THEN LET n == Cardinality(Existing') - Cardinality(Existing) IN
               /\ n >= 1
               /\ getEscrowCount' = getEscrowCount + n
               /\ \A c \in Addr :
                     Len(getUserEscrows(c)') =
                        Len(getUserEscrows(c)) + (IF c = last'.caller THEN n ELSE 0)
          ELSE /\ getEscrowCount' = getEscrowCount
               /\ \A c \in Addr : getUserEscrows(c)' = getUserEscrows(c)]_vars

\* Two callers have created one agreement each, and a further creation call
\* has failed.
C23_Witness ==
    /\ getEscrowCount = 2
    /\ Len(getUserEscrows(1)) = 1 /\ Len(getUserEscrows(2)) = 1
    /\ last.op \in CreationOps /\ last.result \notin {"ok", "EnforcedPause"}

Range(s) == {s[i] : i \in DOMAIN s}

\* C24 (I4): every reference in a per-creator index also appears in the
\* global sequence and has exists = true in the metadata map.
C24_I4 ==
    \A c \in Addr : \A r \in Range(getUserEscrows(c)) :
        /\ r \in Range(getAllEscrows)
        /\ escrowInfo[r].exists

\* A caller's index holds a full batch, next to an agreement the registry
\* does not know.
C24_Witness ==
    /\ Len(getUserEscrows(1)) = MaxBatch
    /\ \E e \in Existing : e \notin Range(getAllEscrows)

isValidEscrow_anyAgreement(r) == agreements[r].exists

isValidEscrow(r) == escrowInfo[r].exists

getEscrowInfoErr(r) ==
    IF ~escrowInfo[r].exists THEN "EscrowDoesNotExist" ELSE "ok"

getEscrowInfo(r) == escrowInfo[r]

\* C25: for every reference r, in every registry state: isValidEscrow(r)
\* answers (it has no failing path), and answers true exactly when r is in the
\* global sequence; getEscrowInfo(r) fails, with EscrowDoesNotExist, exactly
\* when isValidEscrow(r) is false; so the metadata of an address this registry
\* did not create reports exists = false (I5).
C25_ValidExactlyRegistered ==
    \A r \in EscrowIds :
        /\ isValidEscrow(r) \in BOOLEAN
        /\ isValidEscrow(r) <=> r \in Range(getAllEscrows)
        /\ getEscrowInfoErr(r) = (IF isValidEscrow(r) THEN "ok" ELSE "EscrowDoesNotExist")
        /\ r \notin Range(getAllEscrows) => ~getEscrowInfo(r).exists

\* One agreement is registered, another exists but was constructed outside
\* the factory, and a third address holds no agreement.
C25_Witness ==
    /\ \E r \in Existing : isValidEscrow(r) /\ getEscrowInfoErr(r) = "ok"
    /\ \E r \in Existing : ~isValidEscrow(r) /\ getEscrowInfoErr(r) = "EscrowDoesNotExist"
    /\ \E r \in EscrowIds \ Existing : ~isValidEscrow(r)
    /\ getEscrowCount = 1

IsPrefix(s, t) == Len(s) <= Len(t) /\ SubSeq(t, 1, Len(s)) = s

\* C26: the registry is append-only and metadata is write-once: every step
\* leaves the global sequence and each per-creator sequence a prefix of what
\* they are after it (nothing removed, replaced or reordered), and leaves the
\* metadata of every registered reference as it was written.
C26_AppendOnly ==
    [][/\ IsPrefix(escrows, escrows')
       /\ \A c \in Addr : IsPrefix(userEscrows[c], userEscrows'[c])
       /\ \A r \in EscrowIds : escrowInfo[r].exists => escrowInfo'[r] = escrowInfo[r]]_vars

\* A full batch has been appended after an earlier single creation.
C26_Witness ==
    /\ getEscrowCount = MaxBatch + 1
    /\ last.op = "factory.createMultipleEscrows" /\ last.result = "ok"

\* The step is the call createMultipleEscrows(bs, as), by the caller it
\* records, at some time.
BatchCall(bs, as) ==
    /\ last'.op = "factory.createMultipleEscrows"
    /\ \E t \in Times : createMultipleEscrows(last'.caller, bs, as, t)

AllValid(c, bs, as) == \A i \in DOMAIN bs : ~InvalidPair(c, bs[i], as[i])

\* What C27 says of a call createMultipleEscrows(bs, as) by c: the error for
\* arrays of different lengths, for empty arrays and for more than 10 pairs;
\* and for 1 to 10 valid pairs success, with that many new entries in the
\* global sequence and in the caller's index.
BatchOutcome(c, bs, as) ==
    IF Len(bs) # Len(as) THEN last'.result = "ArraysLengthMismatch" /\ UNCHANGED registry
    ELSE IF Len(bs) = 0 THEN last'.result = "EmptyArrays" /\ UNCHANGED registry
    ELSE IF Len(bs) > 10 THEN last'.result = "TooManyEscrows" /\ UNCHANGED registry
    ELSE AllValid(c, bs, as)
            => /\ last'.result = "ok"
               /\ Len(escrows') = Len(escrows) + Len(bs)
               /\ Len(userEscrows'[c]) = Len(userEscrows[c]) + Len(bs)

\* C27 (as stated): createMultipleEscrows(bs, as) fails with
\* ArraysLengthMismatch when the arrays differ in length, with EmptyArrays
\* when both are empty, with TooManyEscrows when they hold more than 10 pairs,
\* and with 1 to 10 valid pairs succeeds and adds exactly that many entries
\* to the global sequence and to the caller's index.
C27_BatchAlways ==
    [][last'.op = "factory.createMultipleEscrows"
          => \A ba \in BatchArgs :
                BatchCall(ba[1], ba[2])
                   => BatchOutcome(last'.caller, ba[1], ba[2])]_vars

\* C27 (amended): the same, of every call made while the factory is not
\* paused.
C27_BatchUnpaused ==
    [][(last'.op = "factory.createMultipleEscrows" /\ ~factoryPaused)
          => \A ba \in BatchArgs :
                BatchCall(ba[1], ba[2])
                   => BatchOutcome(last'.caller, ba[1], ba[2])]_vars

\* A batch of 10 valid pairs has just succeeded on an empty registry.
C27_Witness ==
    /\ getEscrowCount = MaxBatch
    /\ Cardinality(Existing) = MaxBatch
    /\ last.op = "factory.createMultipleEscrows" /\ last.result = "ok"


\* C28: createMultipleEscrows is atomic: a batch in which some pair fails the
\* validation of a single creation, at whatever position, fails as a whole
\* and leaves the global sequence, every per-creator index, the metadata map
\* and the set of existing agreements exactly as they were.
C28_BatchAtomic ==
    [][last'.op = "factory.createMultipleEscrows"
          => \A ba \in BatchArgs :
                (/\ BatchCall(ba[1], ba[2])
                 /\ Len(ba[1]) = Len(ba[2])
                 /\ ~AllValid(last'.caller, ba[1], ba[2]))
                   => /\ last'.result # "ok"
                      /\ UNCHANGED registry
                      /\ Existing' = Existing]_vars

\* A batch has just been refused for an invalid pair on a registry that
\* already holds agreements.
C28_Witness ==
    /\ last.op = "factory.createMultipleEscrows"
    /\ last.result = "InvalidAddress"
    /\ getEscrowCount > 0


\* C29: while the factory is paused, every call of createEscrowExternal and
\* of createMultipleEscrows fails and leaves the registry unchanged; the read
\* accessors answer as they do on an unpaused factory (isValidEscrow tells the
\* registered references, getEscrowInfo answers for each of them); and right
\* after a successful unpause a creation call with a valid pair, single or
\* batched, succeeds again.
C29_FactoryPauseGate ==
    /\ [][(factoryPaused /\ last'.op \in CreationOps)
             => last'.result # "ok" /\ UNCHANGED registry /\ Existing' = Existing]_vars
    /\ [](factoryPaused
             => /\ getEscrowCount = Len(getAllEscrows)
                /\ \A r \in EscrowIds :
                      /\ isValidEscrow(r) <=> r \in Range(getAllEscrows)
                      /\ isValidEscrow(r) => getEscrowInfoErr(r) = "ok"
                      /\ isValidEscrow(r) => getEscrowInfo(r).exists)
    /\ []((last.op = "factory.unpause" /\ last.result = "ok" /\ Room(Registry, 1))
             => /\ ENABLED (createEscrowExternal(1, 2, 3, 1) /\ last'.result = "ok")
                /\ ENABLED (createMultipleEscrows(1, Rep(1, 2), Rep(1, 3), 1)
                               /\ last'.result = "ok"))

\* On a paused factory whose registry holds agreements, a creation call has
\* just been refused.
C29_Witness ==
    /\ factoryPaused
    /\ last.op \in CreationOps
    /\ last.result = "EnforcedPause"
    /\ getEscrowCount > 0


\* What deposit, release and refund on the agreement at e answer to each
\* caller and value.
Outcomes(e) ==
    [deposit |-> [c \in Parties |-> [v \in Values |-> depositErrOf(agreements[e], c, v)]],
     resolve |-> [c \in Parties |-> resolveErrOf(agreements[e], c)]]

\* C30: factory pause and agreement pause are independent.  A pause or unpause
\* of the factory leaves every agreement (paused flag, amount, flags, balance)
\* as it was, and with it what deposit, release and refund answer on every
\* agreement; a pause or unpause of one agreement leaves the factory's paused
\* flag, the registry and every other agreement as they were.
C30_PauseIndependence ==
    /\ [][\A c \in Addr :
             (factoryPause(c) \/ factoryUnpause(c))
                => /\ agreements' = agreements
                   /\ \A e \in Existing : Outcomes(e)' = Outcomes(e)]_vars
    /\ [][\A e \in Operated, c \in Creators :
             (escrowPause(e, c) \/ escrowUnpause(e, c))
                => /\ UNCHANGED <<factoryOwner, factoryPaused, escrows, userEscrows,
                                  escrowInfo>>
                   /\ \A f \in Existing \ {e} : agreements'[f] = agreements[f]
                   /\ Existing' = Existing]_vars

\* The factory is paused, one agreement is paused and another one, not
\* paused, has just taken its deposit.
C30_Witness ==
    /\ factoryPaused
    /\ last.op = "escrow.deposit" /\ last.result = "ok"
    /\ \E e \in Operated, f \in Operated :
          /\ agreements[e].isFunded /\ ~agreements[e].paused
          /\ agreements[f].paused /\ ~agreements[f].isFunded


\* ---------------------------------------------------------------------------
\* The factory's scans of the agreements' live flags
\* ---------------------------------------------------------------------------
\* Whether the scan of getEscrowsByStatus includes the agreement ag.
include_releasedForRefunded(status, ag) ==
    IF status = 0 THEN TRUE
    ELSE IF status = 1 THEN ag.isFunded
    ELSE IF status = 2 THEN ag.isReleased
    ELSE IF status = 3 THEN ag.isReleased
    ELSE FALSE

include(status, ag) ==
    IF status = 0 THEN TRUE
    ELSE IF status = 1 THEN ag.isFunded
    ELSE IF status = 2 THEN ag.isReleased
    ELSE IF status = 3 THEN ag.isRefunded
    ELSE FALSE

\* The loop of getEscrowsByStatus from index i on, with the addresses kept so
\* far; the resized copy it returns holds exactly those.
RECURSIVE filterFrom(_, _, _)
filterFrom(status, i, filteredEscrows) ==
    IF i > Len(escrows) THEN filteredEscrows
    ELSE filterFrom(status, i + 1,
                    IF include(status, agreements[escrows[i]])
                    THEN Append(filteredEscrows, escrows[i])
                    ELSE filteredEscrows)

getEscrowsByStatus(status) == filterFrom(status, 1, <<>>)

\* The loop of getFactoryStats from index i on, with the counts so far.
RECURSIVE statsFrom(_, _)
statsFrom(i, st) ==
    IF i > Len(escrows) THEN st
    ELSE LET ag == agreements[escrows[i]] IN
         statsFrom(i + 1,
                   [totalEscrows |-> st.totalEscrows,
                    totalFunded |-> st.totalFunded + (IF ag.isFunded THEN 1 ELSE 0),
                    totalReleased |-> st.totalReleased + (IF ag.isReleased THEN 1 ELSE 0),
                    totalRefunded |-> st.totalRefunded + (IF ag.isRefunded THEN 1 ELSE 0)])

getFactoryStats ==
    statsFrom(1, [totalEscrows |-> Len(escrows), totalFunded |-> 0,
                  totalReleased |-> 0, totalRefunded |-> 0])

\* The live flag a filter asks for: 0 all, 1 funded, 2 released, 3 refunded.
Matches(f, r) ==
    \/ f = 0
    \/ f = 1 /\ agreements[r].isFunded
    \/ f = 2 /\ agreements[r].isReleased
    \/ f = 3 /\ agreements[r].isRefunded

\* s holds, in the order of the global sequence, exactly the registered
\* agreements that match f.
IsFiltered(s, f) ==
    /\ \A r \in Range(escrows) : Matches(f, r) <=> r \in Range(s)
    /\ Range(s) \subseteq Range(escrows)
    /\ \A i, j \in DOMAIN s :
          i < j => \E k, l \in DOMAIN escrows :
                      k < l /\ escrows[k] = s[i] /\ escrows[l] = s[j]

\* C31: in every state getEscrowsByStatus(f) returns, in global-sequence
\* order, exactly the registered agreements whose live flag matches f, and
\* getFactoryStats returns the lengths of getEscrowsByStatus for all, funded,
\* released and refunded.
C31_StatusScans ==
    /\ \A f \in 0..3 : IsFiltered(getEscrowsByStatus(f), f)
    /\ getFactoryStats =
          [totalEscrows |-> Len(getEscrowsByStatus(0)),
           totalFunded |-> Len(getEscrowsByStatus(1)),
           totalReleased |-> Len(getEscrowsByStatus(2)),
           totalRefunded |-> Len(getEscrowsByStatus(3))]

\* Two registered agreements, the first refunded and the second released.
C31_Witness ==
    /\ getFactoryStats = [totalEscrows |-> 2, totalFunded |-> 2,
                          totalReleased |-> 1, totalRefunded |-> 1]
    /\ getEscrowsByStatus(3) = <<escrows[1]>>
    /\ getEscrowsByStatus(2) = <<escrows[2]>>


\* C32: an agreement that is funded and unresolved holds at least amount, so
\* that a release or refund by the arbiter on the unpaused agreement can pay:
\* between calls, isFunded and not isReleased and not isRefunded imply
\* balance >= amount.
C32_FundedCanPay ==
    (stack = <<>> /\ isFunded /\ ~isReleased /\ ~isRefunded)
        => balance >= amount


\* C33: a successful emergencyWithdraw, called by the administrator on the
\* paused agreement, hands the agreement's entire balance to the administrator:
\* when the call has returned the balance is 0 and the administrator holds
\* what the agreement held (nothing moves when the balance was 0), and amount,
\* isFunded, isReleased, isRefunded and paused are what they were before the
\* call.
C33_EmergencyWithdrawEffect ==
    [][(last'.op = "emergencyWithdraw" /\ last'.result = "ok" /\ stack' = <<>>)
          => /\ Committed.paused /\ last'.caller = owner
             /\ balance' = 0
             /\ wallet'[owner] = Committed.wallet[owner] + Committed.balance
             /\ amount' = Committed.amount
             /\ isFunded' = Committed.isFunded
             /\ isReleased' = Committed.isReleased
             /\ isRefunded' = Committed.isRefunded
             /\ paused' = Committed.paused]_vars


\* The agreement of Spec as getEscrowStatus reads it.
Self ==
    [depositor |-> depositor, beneficiary |-> beneficiary, arbiter |-> arbiter,
     amount |-> amount, isFunded |-> isFunded, isReleased |-> isReleased,
     isRefunded |-> isRefunded]

\* C34: the flag is written before the value moves: for as long as the
\* transfer made by release (refund) is in flight, getEscrowStatus reports
\* isReleased (isRefunded) true; every release, refund or deposit called on
\* the agreement inside that transfer fails and changes nothing; and no
\* second payout is made inside it.
C34_FlagBeforeTransfer ==
    /\ []((stack # <<>> /\ stack[1].op = "release") => getEscrowStatus(Self)[6])
    /\ []((stack # <<>> /\ stack[1].op = "refund") => getEscrowStatus(Self)[7])
    /\ [][(stack # <<>> /\ stack[1].op \in {"release", "refund"} /\ CallMade
             /\ last'.op \in {"release", "refund", "deposit"})
            => /\ last'.result \notin {"ok", "pending"}
               /\ UNCHANGED <<roles, fields, stack>>]_vars
    /\ [][(stack # <<>> /\ stack[1].op \in {"release", "refund"})
            => Len(payouts') <= Len(payouts)]_vars
    /\ [](Len(payouts) <= 1)

\* Inside the refund's transfer the depositor, who is being paid, calls
\* deposit and is refused.
C34_Witness ==
    /\ stack # <<>> /\ Top.op = "refund" /\ Top.to = depositor
    /\ getEscrowStatus(Self)[7]
    /\ last = Call("deposit", depositor, 1, "AlreadyFunded")


\* ---- a batch against single creations ----

\* The registry after the first n pairs were created one call at a time, by
\* n successful calls of createEscrowExternal at time t.
RECURSIVE Successive(_, _, _, _, _, _)
Successive(reg, c, bs, as, t, n) ==
    IF n = 0 THEN reg
    ELSE createEscrow(Successive(reg, c, bs, as, t, n - 1), c, bs[n], as[n], t)

\* The array createMultipleEscrows returns: entry i is what the i-th
\* createEscrow returned.
RECURSIVE escrowAddresses(_, _, _, _, _, _)
escrowAddresses(reg, c, bs, as, t, i) ==
    IF i > Len(bs) THEN <<>>
    ELSE <<NewAddress(reg)>>
            \o escrowAddresses(createEscrow(reg, c, bs[i], as[i], t), c, bs, as, t, i + 1)

LastEntries(s, n) == SubSeq(s, Len(s) - n + 1, Len(s))

C36_MetadataAgrees ==
    /\ [](\A r \in Range(getAllEscrows) :
            /\ getEscrowInfoErr(r) = "ok"
            /\ getEscrowInfo(r).depositor = getEscrowStatus(agreements[r])[1]
            /\ getEscrowInfo(r).beneficiary = getEscrowStatus(agreements[r])[2]
            /\ getEscrowInfo(r).arbiter = getEscrowStatus(agreements[r])[3]
            /\ \A c \in Addr :
                  r \in Range(getUserEscrows(c)) <=> c = getEscrowInfo(r).depositor)
    /\ [][\A r \in Range(getAllEscrows') \ Range(getAllEscrows) :
             /\ last'.op \in CreationOps
             /\ getEscrowInfo(r)'.depositor = last'.caller
             /\ r \in Range(userEscrows'[last'.caller])]_vars

\* Two creators have registered one agreement each.
C36_Witness ==
    /\ Len(getAllEscrows) = 2
    /\ getEscrowInfo(escrows[1]).depositor # getEscrowInfo(escrows[2]).depositor
    /\ getUserEscrows(1) # <<>> /\ getUserEscrows(2) # <<>>
    /\ getEscrowStatus(agreements[escrows[2]])[2] = getEscrowInfo(escrows[2]).beneficiary


\* ---- the event log ----

\* The records named n in a log, and the records a step adds to the log of
\* completed calls.
Named(log, n) == {i \in DOMAIN log : log[i].name = n}
Added(n) ==
    {i \in Named(Committed'.events, n) : i > Len(Committed.events)}

\* C37: the log of the completed calls mirrors the state they leave.  A
\* Deposited record carrying amount is in the log exactly if isFunded, a
\* Released (Refunded) record carrying amount exactly if isReleased
\* (isRefunded), each at most once and never both of the last two.  Step by
\* step the log only grows: a step adds a Deposited record exactly when it
\* makes isFunded true, a Released (Refunded) record exactly when it makes
\* isReleased (isRefunded) true, and a failed call adds no record (it takes
\* back the records of the calls nested in it).
C37_LogMirrorsState ==
    /\ [](LET s == Committed
              log == s.events
          IN  /\ s.isFunded <=> \E i \in DOMAIN log : log[i].name = "Deposited"
              /\ s.isReleased <=> \E i \in DOMAIN log : log[i].name = "Released"
              /\ s.isRefunded <=> \E i \in DOMAIN log : log[i].name = "Refunded"
              /\ \A i \in DOMAIN log :
                    /\ log[i].name = "Deposited" =>
                          /\ log[i] = [name |-> "Deposited", who |-> depositor,
                                       amount |-> s.amount]
                          /\ \A j \in DOMAIN log : log[j].name = "Deposited" => j = i
                    /\ log[i].name = "Released" =>
                          log[i] = [name |-> "Released", who |-> beneficiary,
                                    amount |-> s.amount]
                    /\ log[i].name = "Refunded" =>
                          log[i] = [name |-> "Refunded", who |-> depositor,
                                    amount |-> s.amount]
                    /\ log[i].name \in {"Released", "Refunded"} =>
                          \A j \in DOMAIN log :
                             log[j].name \in {"Released", "Refunded"} => j = i)
    /\ [][/\ IF Committed'.events = Committed.events
             THEN /\ Committed.isFunded \/ ~Committed'.isFunded
                  /\ Committed.isReleased \/ ~Committed'.isReleased
                  /\ Committed.isRefunded \/ ~Committed'.isRefunded
             ELSE /\ Len(Committed'.events) > Len(Committed.events)
                  /\ SubSeq(Committed'.events, 1, Len(Committed.events)) = Committed.events
                  /\ Added("Deposited") # {} <=> (~Committed.isFunded /\ Committed'.isFunded)
                  /\ Added("Released") # {} <=> (~Committed.isReleased /\ Committed'.isReleased)
                  /\ Added("Refunded") # {} <=> (~Committed.isRefunded /\ Committed'.isRefunded)
          /\ (last'.result \notin {"ok", "pending"}
                => /\ Len(events') <= Len(events)
                   /\ events' = SubSeq(events, 1, Len(events'))
                   /\ Committed'.events = Committed.events)]_vars

\* The log of a funded and then released agreement, after the depositor sent
\* more value to it: one Deposited and one Released record.
C37_Witness ==
    /\ stack = <<>> /\ isReleased /\ balance > 0
    /\ last.op = "receive" /\ last.result = "ok"
    /\ Cardinality(Named(events, "Deposited")) = 1
    /\ Cardinality(Named(events, "Released")) = 1


\* ---- the order of the checks ----

\* The error of the first check that fails in a list of <<fails, error>>
\* pairs, or "none".
RECURSIVE FirstFailing(_)
FirstFailing(checks) ==
    IF checks = <<>> THEN "none"
    ELSE IF checks[1][1] THEN checks[1][2]
    ELSE FirstFailing(Tail(checks))

Errors(checks) == {checks[i][2] : i \in DOMAIN checks}

\* A call that answered res reported the first failing check of the list.
Reports(res, checks) ==
    /\ FirstFailing(checks) # "none" => res = FirstFailing(checks)
    /\ res \in Errors(checks) => res = FirstFailing(checks)

resolveChecks(ag, c) ==
    << <<c # ag.arbiter, "OnlyArbiter">>,
       <<~ag.isFunded, "NotFunded">>,
       <<ag.isReleased \/ ag.isRefunded, "AlreadyReleased">>,
       <<ag.paused, "EnforcedPause">> >>

depositChecks(ag, c, v) ==
    << <<c # ag.depositor, "OnlyDepositor">>,
       <<ag.isFunded, "AlreadyFunded">>,
       <<ag.paused, "EnforcedPause">>,
       <<v = 0, "InvalidAmount">> >>

batchChecks(c, bs, as) ==
    << <<Len(bs) # Len(as), "ArraysLengthMismatch">>,
       <<Len(bs) = 0, "EmptyArrays">>,
       <<Len(bs) > MaxBatch, "TooManyEscrows">>,
       <<\E i \in DOMAIN bs \cap DOMAIN as : InvalidPair(c, bs[i], as[i]),
         "InvalidAddress">> >>

\* release, refund and deposit report the first failing check of their lists.
AgreementErrorOrder ==
    /\ last'.op \in {"escrow.release", "escrow.refund"} =>
          \A e \in Operated :
             (escrowRelease(e, last'.caller) \/ escrowRefund(e, last'.caller))
                => Reports(last'.result, resolveChecks(agreements[e], last'.caller))
    /\ last'.op = "escrow.deposit" =>
          \A e \in Operated :
             escrowDeposit(e, last'.caller, last'.value)
                => Reports(last'.result,
                           depositChecks(agreements[e], last'.caller, last'.value))

\* createMultipleEscrows reports the first failing check of its list, after
\* whatever checks come first.
BatchErrorOrder(first) ==
    last'.op = "factory.createMultipleEscrows" =>
       \A ba \in FailingBatches :
          createMultipleEscrows(last'.caller, ba[1], ba[2], 1)
             => Reports(last'.result, first \o batchChecks(last'.caller, ba[1], ba[2]))

\* C38 (as stated): when several preconditions fail at once, the error is
\* that of the first failing check: for release and refund in the order
\* OnlyArbiter, NotFunded, AlreadyReleased, EnforcedPause; for deposit
\* OnlyDepositor, AlreadyFunded, EnforcedPause, InvalidAmount; for
\* createMultipleEscrows ArraysLengthMismatch, EmptyArrays, TooManyEscrows,
\* then the InvalidAddress of a pair.
C38_ErrorOrder ==
    [][AgreementErrorOrder /\ BatchErrorOrder(<<>>)]_vars

\* C38 (amended): the same, with the factory's pause as the first check of
\* createMultipleEscrows: EnforcedPause, then ArraysLengthMismatch,
\* EmptyArrays, TooManyEscrows, then the InvalidAddress of a pair.
C38_ErrorOrderPauseFirst ==
    [][AgreementErrorOrder
         /\ BatchErrorOrder(<< <<factoryPaused, "EnforcedPause">> >>)]_vars

\* The arbiter asks for a refund of a released agreement that is paused, and
\* is told that it is already released.
C38_Witness ==
    /\ Len(escrows) = 1
    /\ agreements[escrows[1]].isReleased /\ agreements[escrows[1]].paused
    /\ last = Call("escrow.refund", agreements[escrows[1]].arbiter, 0, "AlreadyReleased")


\* C39: the factory statistics satisfy released + refunded <= funded <= total
\* in every state: an agreement counted as released or refunded is still
\* counted as funded, and none is counted as both released and refunded.
C39_StatsOrdered ==
    /\ getFactoryStats.totalReleased + getFactoryStats.totalRefunded
          <= getFactoryStats.totalFunded
    /\ getFactoryStats.totalFunded <= getFactoryStats.totalEscrows
    /\ \A r \in Range(getAllEscrows) :
          /\ (include(2, agreements[r]) \/ include(3, agreements[r]))
                => include(1, agreements[r])
          /\ ~(include(2, agreements[r]) /\ include(3, agreements[r]))

\* Of two registered agreements one is funded and unresolved and the other
\* refunded: both count as funded.
C39_Witness ==
    /\ getFactoryStats = [totalEscrows |-> 2, totalFunded |-> 2,
                          totalReleased |-> 0, totalRefunded |-> 1]
====
